---- MODULE Spec2Model ----
(***************************************************************************)
(* clitheme (src/main.rs): a wrapper that runs a child command, rewrites   *)
(* its stdout and stderr line by line with regex replacement rules, and    *)
(* forwards local stdin to the child of an interactive command.            *)
(*                                                                         *)
(* Text is a sequence of one-character strings.  A pattern is a literal    *)
(* text (the subset of regex syntax without metacharacters, the empty      *)
(* pattern included); a replacement is a literal text without '$'.         *)
(***************************************************************************)
EXTENDS Integers, Sequences, FiniteSets, TLC

\* ------------------------------------------------------------------ bounds

\* Writes the child makes to its stdout, at most.
MaxOut == 1
\* Writes the child makes to its stderr, at most.
MaxErr == 1
\* Times something is typed on local stdin, at most.
MaxKbd == 1
\* Rule records in a configuration file of the rule engine's runs, at most.
MaxRules == 2

\* ------------------------------------------------------------------- text

\* Option: None, Some(x).
None == <<>>
Some(x) == <<x>>

UpperChars == <<"A","B","C","D","E","F","G","H","I","J","K","L","M",
                "N","O","P","Q","R","S","T","U","V","W","X","Y","Z">>
LowerChars == <<"a","b","c","d","e","f","g","h","i","j","k","l","m",
                "n","o","p","q","r","s","t","u","v","w","x","y","z">>

\* char::to_lowercase on the ASCII range.
LowerChar(c) ==
    IF \E i \in DOMAIN UpperChars : UpperChars[i] = c
    THEN LowerChars[CHOOSE i \in DOMAIN UpperChars : UpperChars[i] = c]
    ELSE c

\* str::to_lowercase.
to_lowercase(s) == [i \in DOMAIN s |-> LowerChar(s[i])]

\* Whether pat occurs in text at position i (1-based).
MatchAt(text, pat, i) ==
    /\ i + Len(pat) - 1 <= Len(text)
    /\ \A k \in 1..Len(pat) : text[i + k - 1] = pat[k]

RECURSIVE ReplaceFrom(_, _, _, _)
\* Regex::replace_all from position i on: the leftmost match is replaced, the
\* scan goes on after it; an empty match is followed by one copied character.
ReplaceFrom(text, pat, rep, i) ==
    IF i > Len(text)
    THEN (IF Len(pat) = 0 THEN rep ELSE <<>>)
    ELSE IF MatchAt(text, pat, i)
         THEN IF Len(pat) = 0
              THEN rep \o <<text[i]>> \o ReplaceFrom(text, pat, rep, i + 1)
              ELSE rep \o ReplaceFrom(text, pat, rep, i + Len(pat))
         ELSE <<text[i]>> \o ReplaceFrom(text, pat, rep, i + 1)

\* Regex::replace_all(text, replacement) for a literal pattern.
replace_all(text, pat, rep) == ReplaceFrom(text, pat, rep, 1)

\* --------------------------------------------------------------- rule engine

\* Vec::contains.
Contains(seq, x) == \E i \in DOMAIN seq : seq[i] = x

\* Variant of Applicable: the locale tag is not compared.
Applicable_NoLocale(rule, lowered, loc) ==
    ~(rule.commands # <<>> /\ ~Contains(rule.commands, lowered))

\* The two `continue` guards of apply_replacements' loop, negated: the rule
\* runs when its command filter is empty or holds the lowercased command
\* name, and its locale is the selected one.
Applicable(rule, lowered, loc) ==
    /\ ~(rule.commands # <<>> /\ ~Contains(rule.commands, lowered))
    /\ ~(rule.locale # loc)

RECURSIVE ApplyFrom_FirstOnly(_, _, _, _, _)
\* Variant of ApplyFrom: the loop ends after the first rule that ran.
ApplyFrom_FirstOnly(result, lowered, rs, loc, k) ==
    IF k > Len(rs)
    THEN result
    ELSE IF Applicable(rs[k], lowered, loc)
         THEN replace_all(result, rs[k].pattern, rs[k].replacement)
         ELSE ApplyFrom_FirstOnly(result, lowered, rs, loc, k + 1)

RECURSIVE ApplyFrom_Reversed(_, _, _, _, _)
\* Variant of ApplyFrom: the rules run from the last to the first.
ApplyFrom_Reversed(result, lowered, rs, loc, k) ==
    IF k > Len(rs)
    THEN result
    ELSE LET rest == ApplyFrom_Reversed(result, lowered, rs, loc, k + 1)
         IN IF Applicable(rs[k], lowered, loc)
            THEN replace_all(rest, rs[k].pattern, rs[k].replacement)
            ELSE rest

RECURSIVE ApplyFrom(_, _, _, _, _)
\* The loop of apply_replacements from rule k on, result being the text so far.
ApplyFrom(result, lowered, rs, loc, k) ==
    IF k > Len(rs)
    THEN result
    ELSE ApplyFrom(IF Applicable(rs[k], lowered, loc)
                   THEN replace_all(result, rs[k].pattern, rs[k].replacement)
                   ELSE result,
                   lowered, rs, loc, k + 1)

apply_replacements(text, command_name, rs, loc) ==
    ApplyFrom(text, to_lowercase(command_name), rs, loc, 1)

\* ------------------------------------------------------------ configuration

\* Regex::new on a literal pattern: of the characters used here only an
\* unclosed "(" makes a pattern invalid.
Compiles(pattern) == ~Contains(pattern, "(")

\* Variant of from_config: the command filter is kept as it is written.
from_config_KeepCase(config) ==
    [pattern     |-> config.pattern,
     replacement |-> config.replacement,
     locale      |-> config.locale,
     commands    |-> config.commands]

\* ReplacementRule::from_config on a record whose pattern compiles: the
\* command filter is lowercased, the other fields are cloned.
from_config(config) ==
    [pattern     |-> config.pattern,
     replacement |-> config.replacement,
     locale      |-> config.locale,
     commands    |-> [i \in DOMAIN config.commands |->
                         to_lowercase(config.commands[i])]]

RECURSIVE LoadFrom_StopAtInvalid(_, _)
\* Variant of LoadFrom: the loop ends at the first record that does not
\* compile.
LoadFrom_StopAtInvalid(configs, k) ==
    IF k > Len(configs)
    THEN <<>>
    ELSE IF Compiles(configs[k].pattern)
         THEN <<from_config(configs[k])>> \o LoadFrom_StopAtInvalid(configs, k + 1)
         ELSE <<>>

RECURSIVE LoadFrom(_, _)
\* The loop of load_config from record k on: a record that compiles is
\* pushed, another one is skipped with a warning.
LoadFrom(configs, k) ==
    IF k > Len(configs)
    THEN <<>>
    ELSE (IF Compiles(configs[k].pattern)
          THEN <<from_config(configs[k])>>
          ELSE <<>>) \o LoadFrom(configs, k + 1)

load_config(configs) == LoadFrom(configs, 1)

\* fn default_locale.
default_locale == <<"d","e","f","a","u","l","t">>

\* ------------------------------------------------------ command classification

RECURSIVE SplitFrom(_, _, _)
\* The components of a path: the text between '/' separators, from position i
\* on, cur being the component read so far.
SplitFrom(path, i, cur) ==
    IF i > Len(path)
    THEN <<cur>>
    ELSE IF path[i] = "/"
         THEN <<cur>> \o SplitFrom(path, i + 1, <<>>)
         ELSE SplitFrom(path, i + 1, Append(cur, path[i]))

\* Path::components without the root: empty components and "." are dropped.
Components(path) ==
    SelectSeq(SplitFrom(path, 1, <<>>), LAMBDA c : c # <<>> /\ c # <<".">>)

unknown == <<"u","n","k","n","o","w","n">>

\* PathBuf::from(&command[0]).file_name().and_then(to_str).unwrap_or("unknown"):
\* the last component, unless there is none or it is "..".
CommandName(cmd) ==
    LET cs == Components(cmd[1])
    IN IF cs = <<>> \/ cs[Len(cs)] = <<".", ".">>
       THEN unknown
       ELSE cs[Len(cs)]

interactive_commands ==
    { <<"p","y","t","h","o","n">>, <<"p","y","t","h","o","n","3">>,
      <<"i","p","y","t","h","o","n">>, <<"b","a","s","h">>, <<"s","h">>,
      <<"c","m","d">>, <<"z","s","h">> }

\* Variant of IsInteractive: the name is compared as it is written.
IsInteractive_CaseSensitive(name) == \E c \in interactive_commands : c = name

\* interactive_commands.iter().any(|&cmd| cmd == command_name.to_lowercase()).
IsInteractive(name) == \E c \in interactive_commands : c = to_lowercase(name)

RECURSIVE JoinFrom(_, _)
\* [..].join(" ") from word k on.
JoinFrom(words, k) ==
    IF k > Len(words)
    THEN <<>>
    ELSE IF k = Len(words)
         THEN words[k]
         ELSE words[k] \o <<" ">> \o JoinFrom(words, k + 1)

\* The program and argument vector handed to spawn: sh -c "<words joined by
\* one space>" for an interactive command, the command itself otherwise.
SpawnPlan(cmd, interactive) ==
    IF interactive
    THEN [program |-> <<"s","h">>, args |-> << <<"-","c">>, JoinFrom(cmd, 1) >>]
    ELSE [program |-> cmd[1], args |-> SubSeq(cmd, 2, Len(cmd))]

\* ------------------------------------------------------------------- state

VARIABLES
    command,        \* the argument vector handed to execute_command
    config,         \* the rule records of the configuration file
    rules,          \* the rule set load_config returned
    locale,         \* args.locale
    pc,             \* where execute_command (and main around it) stands
    outcome,        \* how the wrapper process ended, "running" before
    exitCode,       \* Some(the code main hands to std::process::exit), None before
    command_name,   \* execute_command's local of that name
    is_interactive, \* execute_command's local of that name
    spawned,        \* Some(the program and arguments of the child), None before
    child,          \* "none", "running", "exited" or "killed"
    status,         \* Some(the child's own exit status), None while it runs
    waitStatus,     \* Some(what child.wait() returned), None before
    handle,         \* who owns the child's stdin, stdout and stderr handles
    pipe,           \* per output stream: the bytes written and not yet read
    written,        \* per output stream: every byte the child has written
    nwrites,        \* per output stream: how many writes the child has made
    task,           \* per task: where its loop stands
    cur,            \* per task: the line it holds
    got,            \* per task: every line its reader returned
    sink,           \* per output stream: the bytes written to the local sink
    flushed,        \* per output stream: how many of them were flushed
    kbd,            \* bytes typed on local stdin and not yet read
    typed,          \* how many times something was typed
    kbdEOF,         \* local stdin reached end-of-stream
    childIn,        \* the bytes written to the child's stdin
    ioError         \* the tasks one of whose own reads or writes failed

procVars == <<command, config, rules, locale, pc, outcome, exitCode, command_name,
              is_interactive, spawned, child, status, waitStatus, handle,
              pipe, written, nwrites, task, cur, got, sink, flushed, kbd,
              typed, kbdEOF, childIn, ioError>>

vars == <<procVars>>

Streams == {"stdout", "stderr"}
Tasks == {"stdout", "stderr", "stdin"}

\* A task that returned: Ok(()) or Err.
Finished == {"ok", "err"}
\* A task inside its loop.
Looping == {"read", "write_text", "write_nl", "flush"}

\* The bytes 0x0A and 0x0D.
LF == "LF"
CR == "CR"

\* The wrapper process is gone.
Ended == pc \in {"exited", "interrupted"}

\* ------------------------------------------------------------------ inputs

\* Argument vectors: ls -a; sh/ls (ls in a directory named sh); /bin/SH -i;
\* bin/.. (a path with no file name); and the empty one.
CmdLs == << <<"l","s">>, <<"-","a">> >>
CmdShLs == << <<"s","h","/","l","s">> >>
CmdBinSH == << <<"/","b","i","n","/","S","H">>, <<"-","i">> >>
CmdDotDot == << <<"b","i","n","/",".",".">> >>

Commands == { CmdLs, CmdShLs, CmdBinSH, CmdDotDot, << >> }

ja == <<"j","a">>

\* The configuration file of the run: a -> c for every command, b -> (deleted)
\* under locale ja, b -> dd for sh only, and one record that does not compile.
RunConfig ==
    << [pattern |-> <<"a">>, replacement |-> <<"c">>,
        locale |-> default_locale, commands |-> <<>>],
       [pattern |-> <<"b">>, replacement |-> <<>>,
        locale |-> ja, commands |-> <<>>],
       [pattern |-> <<"(">>, replacement |-> <<"x">>,
        locale |-> default_locale, commands |-> <<>>],
       [pattern |-> <<"b">>, replacement |-> <<"d","d">>,
        locale |-> default_locale, commands |-> << <<"S","h">> >>] >>

\* A configuration file that is the empty array.
EmptyConfig == << >>

\* The configuration file each command is run with: sh/ls with the empty
\* one, the others with RunConfig.
ConfigOf(cmd) == IF cmd = CmdShLs THEN EmptyConfig ELSE RunConfig

\* What the child may write to an output stream in one write.  To stdout: a
\* line ended by carriage return and line feed, and text with no line end.
\* To stderr: a line ended by a line feed.
OutChunks == { <<"b", "a", CR, LF, "b">> }

ErrChunks == { <<"a", "b", LF>> }

\* What may be typed on local stdin at once: a line ended by a line feed and
\* text with no line end, which is a line when local stdin ends.
KbdChunks == { <<"a", LF, "b">> }

ChildChunks(s) == IF s = "stdout" THEN OutChunks ELSE ErrChunks
MaxWritten(s) == IF s = "stdout" THEN MaxOut ELSE MaxErr

\* The child's exit statuses: ExitStatus with a code, or ended by a signal.
Exit(n) == [kind |-> "code", code |-> n]
Signaled == [kind |-> "signal", code |-> 0]
Statuses == {Exit(3), Signaled}

\* -------------------------------------------------------------------- Init

Init ==
    /\ command \in Commands
    /\ config = ConfigOf(command)
    /\ rules = <<>>
    /\ locale = default_locale
    /\ pc = "load"
    /\ outcome = "running"
    /\ exitCode = None
    /\ command_name = <<>>
    /\ is_interactive = FALSE
    /\ spawned = None
    /\ child = "none"
    /\ status = None
    /\ waitStatus = None
    /\ handle = [h \in Tasks |-> "none"]
    /\ pipe = [s \in Streams |-> <<>>]
    /\ written = [s \in Streams |-> <<>>]
    /\ nwrites = [s \in Streams |-> 0]
    /\ task = [t \in Tasks |-> "none"]
    /\ cur = [t \in Tasks |-> <<>>]
    /\ got = [t \in Tasks |-> <<>>]
    /\ sink = [s \in Streams |-> <<>>]
    /\ flushed = [s \in Streams |-> 0]
    /\ kbd = <<>>
    /\ typed = 0
    /\ kbdEOF = FALSE
    /\ childIn = <<>>
    /\ ioError = {}

\* ------------------------------------------------------- exit code and exit

Ok(code) == [ok |-> TRUE, code |-> code]
Err == [ok |-> FALSE, code |-> 0]

\* Variant of ExitCodeOf: a signal is reported as 0.
ExitCodeOf_SignalZero(st) == IF st.kind = "code" THEN st.code ELSE 0

\* status.code().unwrap_or(1).
ExitCodeOf(st) == IF st.kind = "code" THEN st.code ELSE 1

\* Variant of ReturnValue: a task's error is returned in place of the status.
ReturnValue_TaskError(st, tk) ==
    IF \E t \in Tasks : tk[t] = "err" THEN Err ELSE Ok(ExitCodeOf(st))

\* What execute_command returns once the tasks are joined: their results are
\* discarded (let _ = handle.await) and the status alone decides.
ReturnValue(st, tk) == Ok(ExitCodeOf(st))

\* Variant of MainExit: an error of execute_command exits with 0.
MainExit_ErrorZero(result) == IF result.ok THEN result.code ELSE 0

\* main's match on execute_command's result: exit(code), or exit(1) on Err.
MainExit(result) == IF result.ok THEN result.code ELSE 1

\* Variant of AfterFailure: a failing task takes the running tasks with it.
AfterFailure_AbortAll(tk, t) ==
    [x \in Tasks |-> IF x = t \/ tk[x] \in Looping THEN "err" ELSE tk[x]]

\* A task whose loop hit an error returns Err; the other tasks are untouched.
AfterFailure(tk, t) == [tk EXCEPT ![t] = "err"]

\* The tasks when the wrapper process ends: those still looping end with it.
AtProcessEnd(tk) ==
    [x \in Tasks |-> IF tk[x] \in Looping THEN "aborted" ELSE tk[x]]

\* The lines the tasks hold when the wrapper process ends: its memory is gone.
NoLines == [t \in Tasks |-> <<>>]

\* The pipes when the wrapper process ends: with the read ends closed, what
\* was not read is discarded.
Discarded == [s \in Streams |-> <<>>]

\* The handles when the wrapper process ends: all are closed.
AllDropped(hd) == [h \in Tasks |-> IF hd[h] = "none" THEN "none" ELSE "dropped"]

\* ------------------------------------------------------------- supervisor

\* main's check of the command (execute_command's own check never fires
\* after it): with no command main returns the error, which exits with 1.
RejectEmpty ==
    /\ pc = "load"
    /\ command = <<>>
    /\ pc' = "exited"
    /\ outcome' = "no_command"
    /\ exitCode' = Some(1)
    /\ UNCHANGED <<command, config, rules, locale, command_name,
                   is_interactive, spawned, child, status, waitStatus, handle,
                   pipe, written, nwrites, task, cur, got, sink, flushed, kbd,
                   typed, kbdEOF, childIn, ioError>>

\* main's load_config(&args.apply) returns the rules.
LoadConfig ==
    /\ pc = "load"
    /\ command # <<>>
    /\ rules' = load_config(config)
    /\ pc' = "start"
    /\ UNCHANGED <<command, config, locale, outcome, exitCode, command_name,
                   is_interactive, spawned, child, status, waitStatus, handle,
                   pipe, written, nwrites, task, cur, got, sink, flushed, kbd,
                   typed, kbdEOF, childIn, ioError>>

\* main's load_config(&args.apply) fails (the file cannot be read, or its
\* root is no array): exit(1).
ConfigError ==
    /\ pc = "load"
    /\ command # <<>>
    /\ pc' = "exited"
    /\ outcome' = "config_error"
    /\ exitCode' = Some(1)
    /\ UNCHANGED <<command, config, rules, locale, command_name,
                   is_interactive, spawned, child, status, waitStatus, handle,
                   pipe, written, nwrites, task, cur, got, sink, flushed, kbd,
                   typed, kbdEOF, childIn, ioError>>

\* Classification and a successful spawn: three fresh pipes, owned by the Child.
SpawnOk ==
    /\ pc = "start"
    /\ command_name' = CommandName(command)
    /\ is_interactive' = IsInteractive(CommandName(command))
    /\ spawned' = Some(SpawnPlan(command, IsInteractive(CommandName(command))))
    /\ child' = "running"
    /\ handle' = [h \in Tasks |-> "child"]
    /\ pc' = "spawned"
    /\ UNCHANGED <<command, config, rules, locale, outcome, exitCode, status,
                   waitStatus, pipe, written, nwrites, task, cur, got, sink, flushed,
                   kbd, typed, kbdEOF, childIn, ioError>>

\* Classification and a failed spawn: spawn()? returns the error, main exits.
SpawnFail ==
    /\ pc = "start"
    /\ command_name' = CommandName(command)
    /\ is_interactive' = IsInteractive(CommandName(command))
    /\ pc' = "exited"
    /\ outcome' = "spawn_error"
    /\ exitCode' = Some(MainExit(Err))
    /\ UNCHANGED <<command, config, rules, locale, spawned, child, status, waitStatus,
                   handle, pipe, written, nwrites, task, cur, got, sink, flushed, kbd,
                   typed, kbdEOF, childIn, ioError>>

\* child.stdout.take().expect(..), child.stderr.take().expect(..),
\* child.stdin.take(): a missing stdout or stderr panics, the unwinding drops
\* the Child (kill_on_drop) and the process ends with the panic's code.
TakeHandles ==
    /\ pc = "spawned"
    /\ IF handle["stdout"] = "child" /\ handle["stderr"] = "child"
       THEN /\ handle' = [h \in Tasks |->
                            IF handle[h] = "child" THEN "supervisor" ELSE handle[h]]
            /\ pc' = "taken"
            /\ UNCHANGED <<outcome, exitCode, child, status, task, cur, pipe>>
       ELSE /\ pc' = "exited"
            /\ outcome' = "panic"
            /\ exitCode' = Some(101)
            /\ child' = IF child = "running" THEN "killed" ELSE child
            /\ status' = IF child = "running" THEN Some(Signaled) ELSE status
            /\ handle' = AllDropped(handle)
            /\ task' = AtProcessEnd(task)
            /\ cur' = NoLines
            /\ pipe' = Discarded
    /\ UNCHANGED <<command, config, rules, locale, command_name, is_interactive,
                   spawned, waitStatus, written, nwrites, got, sink,
                   flushed, kbd, typed, kbdEOF, childIn, ioError>>

\* Variant of SpawnStreamTask: the stdout transformer is given the handle,
\* whichever stream it is of.
SpawnStreamTask_ToStdout(s, at, next) ==
    /\ pc = at
    /\ task' = [task EXCEPT ![s] = "read"]
    /\ handle' = [handle EXCEPT ![s] = "stdout"]
    /\ pc' = next
    /\ UNCHANGED <<command, config, rules, locale, outcome, exitCode, command_name,
                   is_interactive, spawned, child, status, waitStatus, pipe,
                   written, nwrites, cur, got, sink, flushed, kbd, typed, kbdEOF,
                   childIn, ioError>>

\* task::spawn of the stdout and the stderr transformer: the handle moves
\* into the task.
SpawnStreamTask(s, at, next) ==
    /\ pc = at
    /\ task' = [task EXCEPT ![s] = "read"]
    /\ handle' = [handle EXCEPT ![s] = s]
    /\ pc' = next
    /\ UNCHANGED <<command, config, rules, locale, outcome, exitCode, command_name,
                   is_interactive, spawned, child, status, waitStatus, pipe,
                   written, nwrites, cur, got, sink, flushed, kbd, typed, kbdEOF,
                   childIn, ioError>>

SpawnStdoutTask == SpawnStreamTask("stdout", "taken", "stdout_spawned")

SpawnStderrTask == SpawnStreamTask("stderr", "stdout_spawned", "stderr_spawned")

\* if is_interactive && stdin.is_some(): the forwarder task is spawned and
\* child_stdin moves into it.
SpawnStdinTask ==
    /\ pc = "stderr_spawned"
    /\ is_interactive /\ handle["stdin"] = "supervisor"
    /\ task' = [task EXCEPT !["stdin"] = "read"]
    /\ handle' = [handle EXCEPT !["stdin"] = "stdin"]
    /\ pc' = "wait"
    /\ UNCHANGED <<command, config, rules, locale, outcome, exitCode, command_name,
                   is_interactive, spawned, child, status, waitStatus, pipe,
                   written, nwrites, cur, got, sink, flushed, kbd, typed, kbdEOF,
                   childIn, ioError>>

\* Variant of NoStdinTask: the stdin handle is dropped when no forwarder is
\* spawned.
NoStdinTask_Dropped ==
    /\ pc = "stderr_spawned"
    /\ ~(is_interactive /\ handle["stdin"] = "supervisor")
    /\ handle' = [handle EXCEPT !["stdin"] = "dropped"]
    /\ pc' = "wait"
    /\ UNCHANGED <<command, config, rules, locale, outcome, exitCode, command_name,
                   is_interactive, spawned, child, status, waitStatus,
                   pipe, written, nwrites, task, cur, got, sink, flushed, kbd, typed,
                   kbdEOF, childIn, ioError>>

\* else None: no forwarder; stdin stays in execute_command's local.
NoStdinTask ==
    /\ pc = "stderr_spawned"
    /\ ~(is_interactive /\ handle["stdin"] = "supervisor")
    /\ pc' = "wait"
    /\ UNCHANGED <<command, config, rules, locale, outcome, exitCode, command_name,
                   is_interactive, spawned, child, status, waitStatus, handle,
                   pipe, written, nwrites, task, cur, got, sink, flushed, kbd, typed,
                   kbdEOF, childIn, ioError>>

\* child.wait().await returns the status of the exited child.
WaitOk ==
    /\ pc = "wait"
    /\ child = "exited"
    /\ waitStatus' = status
    /\ pc' = "join_stdout"
    /\ UNCHANGED <<command, config, rules, locale, outcome, exitCode, command_name,
                   is_interactive, spawned, child, status, handle, pipe,
                   written, nwrites, task, cur, got, sink, flushed, kbd, typed, kbdEOF,
                   childIn, ioError>>

\* child.wait().await? fails: execute_command returns the error, its locals
\* are dropped (a running child is killed: kill_on_drop) and main exits.
WaitFail ==
    /\ pc = "wait"
    /\ pc' = "exited"
    /\ outcome' = "wait_error"
    /\ exitCode' = Some(MainExit(Err))
    /\ child' = IF child = "running" THEN "killed" ELSE child
    /\ status' = IF child = "running" THEN Some(Signaled) ELSE status
    /\ handle' = AllDropped(handle)
    /\ task' = AtProcessEnd(task)
    /\ cur' = NoLines
    /\ pipe' = Discarded
    /\ UNCHANGED <<command, config, rules, locale, command_name, is_interactive,
                   spawned, waitStatus, written, nwrites, got, sink,
                   flushed, kbd, typed, kbdEOF, childIn, ioError>>

\* Variant of Join: the supervisor goes on without waiting for the task.
Join_NoWait(s, at, next) ==
    /\ pc = at
    /\ pc' = next
    /\ UNCHANGED <<command, config, rules, locale, outcome, exitCode, command_name,
                   is_interactive, spawned, child, status, waitStatus, handle,
                   pipe, written, nwrites, task, cur, got, sink, flushed, kbd, typed,
                   kbdEOF, childIn, ioError>>

\* let _ = stdout_handle.await; let _ = stderr_handle.await: the join returns
\* when the task has returned, whatever it returned.
Join(s, at, next) ==
    /\ pc = at
    /\ task[s] \in Finished
    /\ pc' = next
    /\ UNCHANGED <<command, config, rules, locale, outcome, exitCode, command_name,
                   is_interactive, spawned, child, status, waitStatus, handle,
                   pipe, written, nwrites, task, cur, got, sink, flushed, kbd, typed,
                   kbdEOF, childIn, ioError>>

JoinStdout == Join("stdout", "join_stdout", "join_stderr")

JoinStderr == Join("stderr", "join_stderr", "join_stdin")

\* if let Some(handle) = stdin_handle { let _ = handle.await; } and the return
\* of Ok(status.code().unwrap_or(1)) to main, which exits with it.
JoinStdinAndReturn ==
    /\ pc = "join_stdin"
    /\ task["stdin"] = "none" \/ task["stdin"] \in Finished
    /\ pc' = "exited"
    /\ outcome' = "returned"
    /\ exitCode' = Some(MainExit(ReturnValue(waitStatus[1], task)))
    /\ handle' = AllDropped(handle)
    /\ task' = AtProcessEnd(task)
    /\ cur' = NoLines
    /\ pipe' = Discarded
    /\ UNCHANGED <<command, config, rules, locale, command_name, is_interactive,
                   spawned, child, status, waitStatus, written, nwrites, got, sink, flushed, kbd, typed, kbdEOF, childIn, ioError>>

\* The wrapper is ended from outside (SIGKILL, or SIGTERM and SIGINT, which
\* the program does not handle): no destructor runs, the tasks end with the
\* process and the kernel closes its ends of the pipes.
Interrupt ==
    /\ child # "none"
    /\ ~Ended
    /\ pc' = "interrupted"
    /\ outcome' = "interrupted"
    /\ handle' = AllDropped(handle)
    /\ task' = AtProcessEnd(task)
    /\ cur' = NoLines
    /\ pipe' = Discarded
    /\ UNCHANGED <<command, config, rules, locale, exitCode, command_name,
                   is_interactive, spawned, child, status, waitStatus, written, nwrites, got, sink, flushed, kbd, typed, kbdEOF,
                   childIn, ioError>>

\* ------------------------------------------------------------ line reading

HasLineFeed(buf) == \E i \in DOMAIN buf : buf[i] = LF

FirstLineFeed(buf) ==
    CHOOSE i \in DOMAIN buf : buf[i] = LF /\ \A j \in 1..(i - 1) : buf[j] # LF

\* Lines::next_line returns a line: one ended by a line feed is buffered, or
\* the source is at end-of-stream with bytes left.
NextLineReady(buf, closed) == HasLineFeed(buf) \/ (closed /\ buf # <<>>)

\* Variant of EndOfStream: end-of-stream is never seen.
EndOfStream_Never(buf, closed) == FALSE

\* Lines::next_line returns None: end-of-stream with nothing buffered.
EndOfStream(buf, closed) == closed /\ buf = <<>>

\* The bytes read_line takes: up to and with the first line feed, or all.
RawLine(buf) ==
    IF HasLineFeed(buf) THEN SubSeq(buf, 1, FirstLineFeed(buf)) ELSE buf

\* The bytes left in the buffer after read_line.
AfterLine(buf) == SubSeq(buf, Len(RawLine(buf)) + 1, Len(buf))

\* Lines::next_line's trimming: a final line feed is popped, and then a final
\* carriage return.
StripLineEnd(raw) ==
    IF raw # <<>> /\ raw[Len(raw)] = LF
    THEN LET cut == SubSeq(raw, 1, Len(raw) - 1)
         IN IF cut # <<>> /\ cut[Len(cut)] = CR
            THEN SubSeq(cut, 1, Len(cut) - 1)
            ELSE cut
    ELSE raw

\* The write end of the child's stdout and stderr is closed: the child is gone.
SourceClosed == child \in {"exited", "killed"}

\* --------------------------------------------------- process_stream (per task)

\* Variant of Emit: the bytes are written twice.
Emit_Twice(snk, bytes) == snk \o bytes \o bytes

\* writer.write_all(bytes) that succeeds.
Emit(snk, bytes) == snk \o bytes

\* lines.next_line().await? returns Some(line).
StreamRead(s) ==
    /\ task[s] = "read"
    /\ ~Ended
    /\ NextLineReady(pipe[s], SourceClosed)
    /\ cur' = [cur EXCEPT ![s] = StripLineEnd(RawLine(pipe[s]))]
    /\ got' = [got EXCEPT ![s] = Append(@, StripLineEnd(RawLine(pipe[s])))]
    /\ pipe' = [pipe EXCEPT ![s] = AfterLine(@)]
    /\ task' = [task EXCEPT ![s] = "write_text"]
    /\ UNCHANGED <<command, config, rules, locale, pc, outcome, exitCode,
                   command_name, is_interactive, spawned, child, status,
                   waitStatus, handle, written, nwrites, sink, flushed, kbd,
                   typed, kbdEOF, childIn, ioError>>

\* lines.next_line().await? returns None: the loop ends, process_stream
\* returns Ok(()) and the task drops the child's handle.
StreamEnd(s) ==
    /\ task[s] = "read"
    /\ ~Ended
    /\ EndOfStream(pipe[s], SourceClosed)
    /\ task' = [task EXCEPT ![s] = "ok"]
    /\ handle' = [handle EXCEPT ![s] = "dropped"]
    /\ UNCHANGED <<command, config, rules, locale, pc, outcome, exitCode,
                   command_name, is_interactive, spawned, child, status,
                   waitStatus, pipe, written, nwrites, cur, got, sink,
                   flushed, kbd, typed, kbdEOF, childIn, ioError>>

\* apply_replacements and writer.write_all(processed.as_bytes()).await?.
StreamWriteText(s) ==
    /\ task[s] = "write_text"
    /\ ~Ended
    /\ sink' = [sink EXCEPT ![s] =
                   Emit(@, apply_replacements(cur[s], command_name, rules, locale))]
    /\ task' = [task EXCEPT ![s] = "write_nl"]
    /\ UNCHANGED <<command, config, rules, locale, pc, outcome, exitCode,
                   command_name, is_interactive, spawned, child, status,
                   waitStatus, handle, pipe, written, nwrites, cur, got,
                   flushed, kbd, typed, kbdEOF, childIn, ioError>>

\* writer.write_all(b"\n").await?.
StreamWriteNl(s) ==
    /\ task[s] = "write_nl"
    /\ ~Ended
    /\ sink' = [sink EXCEPT ![s] = Emit(@, <<LF>>)]
    /\ task' = [task EXCEPT ![s] = "flush"]
    /\ UNCHANGED <<command, config, rules, locale, pc, outcome, exitCode,
                   command_name, is_interactive, spawned, child, status,
                   waitStatus, handle, pipe, written, nwrites, cur, got,
                   flushed, kbd, typed, kbdEOF, childIn, ioError>>

\* Variant of StreamFlush: the loop goes on without flushing the sink.
StreamFlush_Skipped(s) ==
    /\ task[s] = "flush"
    /\ ~Ended
    /\ cur' = [cur EXCEPT ![s] = <<>>]
    /\ task' = [task EXCEPT ![s] = "read"]
    /\ UNCHANGED <<command, config, rules, locale, pc, outcome, exitCode,
                   command_name, is_interactive, spawned, child, status,
                   waitStatus, handle, pipe, written, nwrites, got, sink,
                   flushed, kbd, typed, kbdEOF, childIn, ioError>>

\* writer.flush().await? and the end of the loop body, where line is dropped.
StreamFlush(s) ==
    /\ task[s] = "flush"
    /\ ~Ended
    /\ flushed' = [flushed EXCEPT ![s] = Len(sink[s])]
    /\ cur' = [cur EXCEPT ![s] = <<>>]
    /\ task' = [task EXCEPT ![s] = "read"]
    /\ UNCHANGED <<command, config, rules, locale, pc, outcome, exitCode,
                   command_name, is_interactive, spawned, child, status,
                   waitStatus, handle, pipe, written, nwrites, got, sink,
                   kbd, typed, kbdEOF, childIn, ioError>>

\* One of the loop's awaits returns an error (a read error or invalid UTF-8,
\* a write or flush error of the sink): `?` returns it and the task drops the
\* child's handle.  A failed write_all of the text may have written a proper
\* prefix of it.
StreamFail(s) ==
    /\ task[s] \in Looping
    /\ ~Ended
    /\ task' = AfterFailure(task, s)
    /\ handle' = [handle EXCEPT ![s] = "dropped"]
    /\ ioError' = ioError \cup {s}
    /\ IF task[s] = "write_text"
       THEN LET processed ==
                    apply_replacements(cur[s], command_name, rules, locale)
            IN \E k \in 0..Len(processed) :
                  /\ k < Len(processed) \/ k = 0
                  /\ sink' = [sink EXCEPT ![s] = @ \o SubSeq(processed, 1, k)]
       ELSE sink' = sink
    /\ UNCHANGED <<command, config, rules, locale, pc, outcome, exitCode,
                   command_name, is_interactive, spawned, child, status,
                   waitStatus, pipe, written, nwrites, cur, got, flushed,
                   kbd, typed, kbdEOF, childIn>>

\* ------------------------------------------------------------ stdin forwarder

\* reader.next_line().await? returns Some(line).
ForwardRead ==
    /\ task["stdin"] = "read"
    /\ ~Ended
    /\ NextLineReady(kbd, kbdEOF)
    /\ cur' = [cur EXCEPT !["stdin"] = StripLineEnd(RawLine(kbd))]
    /\ got' = [got EXCEPT !["stdin"] = Append(@, StripLineEnd(RawLine(kbd)))]
    /\ kbd' = AfterLine(kbd)
    /\ task' = [task EXCEPT !["stdin"] = "write_text"]
    /\ UNCHANGED <<command, config, rules, locale, pc, outcome, exitCode,
                   command_name, is_interactive, spawned, child, status,
                   waitStatus, handle, pipe, written, nwrites, sink, flushed,
                   typed, kbdEOF, childIn, ioError>>

\* Variant of ForwardEnd: the task returns and child_stdin stays open.
ForwardEnd_KeepsHandle ==
    /\ task["stdin"] = "read"
    /\ ~Ended
    /\ EndOfStream(kbd, kbdEOF)
    /\ task' = [task EXCEPT !["stdin"] = "ok"]
    /\ UNCHANGED <<command, config, rules, locale, pc, outcome, exitCode,
                   command_name, is_interactive, spawned, child, status,
                   waitStatus, handle, pipe, written, nwrites, cur, got, sink,
                   flushed, kbd, typed, kbdEOF, childIn, ioError>>

\* reader.next_line().await? returns None: the task returns Ok(()) and drops
\* child_stdin.
ForwardEnd ==
    /\ task["stdin"] = "read"
    /\ ~Ended
    /\ EndOfStream(kbd, kbdEOF)
    /\ task' = [task EXCEPT !["stdin"] = "ok"]
    /\ handle' = [handle EXCEPT !["stdin"] = "dropped"]
    /\ UNCHANGED <<command, config, rules, locale, pc, outcome, exitCode,
                   command_name, is_interactive, spawned, child, status,
                   waitStatus, pipe, written, nwrites, cur, got, sink,
                   flushed, kbd, typed, kbdEOF, childIn, ioError>>

\* Variant of ForwardWriteText: the line goes through the rules first.
ForwardWriteText_Rewritten ==
    /\ task["stdin"] = "write_text"
    /\ ~Ended
    /\ child = "running" \/ cur["stdin"] = <<>>
    /\ childIn' = childIn \o apply_replacements(cur["stdin"], command_name,
                                                 rules, locale)
    /\ task' = [task EXCEPT !["stdin"] = "write_nl"]
    /\ UNCHANGED <<command, config, rules, locale, pc, outcome, exitCode,
                   command_name, is_interactive, spawned, child, status,
                   waitStatus, handle, pipe, written, nwrites, cur, got, sink,
                   flushed, kbd, typed, kbdEOF, ioError>>

\* child_stdin.write_all(line.as_bytes()).await? to a child that still holds
\* the read end (a write of no bytes succeeds anyway).
ForwardWriteText ==
    /\ task["stdin"] = "write_text"
    /\ ~Ended
    /\ child = "running" \/ cur["stdin"] = <<>>
    /\ childIn' = childIn \o cur["stdin"]
    /\ task' = [task EXCEPT !["stdin"] = "write_nl"]
    /\ UNCHANGED <<command, config, rules, locale, pc, outcome, exitCode,
                   command_name, is_interactive, spawned, child, status,
                   waitStatus, handle, pipe, written, nwrites, cur, got, sink,
                   flushed, kbd, typed, kbdEOF, ioError>>

\* child_stdin.write_all(b"\n").await?, then child_stdin.flush().await?, which
\* has nothing to do on a pipe and returns at once, and the end of the loop
\* body, where line is dropped.
ForwardWriteNl ==
    /\ task["stdin"] = "write_nl"
    /\ ~Ended
    /\ child = "running"
    /\ childIn' = Append(childIn, LF)
    /\ cur' = [cur EXCEPT !["stdin"] = <<>>]
    /\ task' = [task EXCEPT !["stdin"] = "read"]
    /\ UNCHANGED <<command, config, rules, locale, pc, outcome, exitCode,
                   command_name, is_interactive, spawned, child, status,
                   waitStatus, handle, pipe, written, nwrites, got, sink,
                   flushed, kbd, typed, kbdEOF, ioError>>

\* reader.next_line().await? returns an error (a read error of local stdin,
\* or invalid UTF-8): `?` returns it and the task drops child_stdin.
ForwardReadError ==
    /\ ~Ended
    /\ task["stdin"] = "read"
    /\ task' = AfterFailure(task, "stdin")
    /\ handle' = [handle EXCEPT !["stdin"] = "dropped"]
    /\ ioError' = ioError \cup {"stdin"}
    /\ UNCHANGED <<command, config, rules, locale, pc, outcome, exitCode,
                   command_name, is_interactive, spawned, child, status,
                   waitStatus, pipe, written, nwrites, cur, got, sink,
                   flushed, kbd, typed, kbdEOF, childIn>>

\* child_stdin.write_all(..).await? meets a pipe whose read end the exited
\* child has closed: `?` returns the error and the task drops child_stdin.
ForwardBrokenPipe ==
    /\ ~Ended
    /\ \/ task["stdin"] = "write_text" /\ child # "running" /\ cur["stdin"] # <<>>
       \/ task["stdin"] = "write_nl" /\ child # "running"
    /\ task' = AfterFailure(task, "stdin")
    /\ handle' = [handle EXCEPT !["stdin"] = "dropped"]
    /\ ioError' = ioError \cup {"stdin"}
    /\ UNCHANGED <<command, config, rules, locale, pc, outcome, exitCode,
                   command_name, is_interactive, spawned, child, status,
                   waitStatus, pipe, written, nwrites, cur, got, sink,
                   flushed, kbd, typed, kbdEOF, childIn>>

\* ------------------------------------------------------ child and environment

\* The child writes to its stdout or stderr while the wrapper holds the read
\* end of that pipe.
ChildWrite(s, bytes) ==
    /\ child = "running"
    /\ nwrites[s] < MaxWritten(s)
    /\ handle[s] # "dropped"
    /\ pipe' = [pipe EXCEPT ![s] = @ \o bytes]
    /\ written' = [written EXCEPT ![s] = @ \o bytes]
    /\ nwrites' = [nwrites EXCEPT ![s] = @ + 1]
    /\ UNCHANGED <<command, config, rules, locale, pc, outcome, exitCode,
                   command_name, is_interactive, spawned, child, status,
                   waitStatus, handle, task, cur, got, sink, flushed, kbd,
                   typed, kbdEOF, childIn, ioError>>

\* The child ends on its own: it exits with a code or a signal ends it.  The
\* run is followed until the wrapper process is gone.
ChildExit(st) ==
    /\ child = "running"
    /\ ~Ended
    /\ child' = "exited"
    /\ status' = Some(st)
    /\ UNCHANGED <<command, config, rules, locale, pc, outcome, exitCode,
                   command_name, is_interactive, spawned, waitStatus, handle,
                   pipe, written, nwrites, task, cur, got, sink, flushed, kbd,
                   typed, kbdEOF, childIn, ioError>>

\* The user types on local stdin.  What is typed before the forwarder starts
\* waits in the terminal and reaches it as if typed at its start; nothing
\* reads local stdin when there is no forwarder.
Type(bytes) ==
    /\ task["stdin"] \in Looping
    /\ ~Ended
    /\ ~kbdEOF
    /\ typed < MaxKbd
    /\ kbd' = kbd \o bytes
    /\ typed' = typed + 1
    /\ UNCHANGED <<command, config, rules, locale, pc, outcome, exitCode,
                   command_name, is_interactive, spawned, child, status,
                   waitStatus, handle, pipe, written, nwrites, task, cur, got,
                   sink, flushed, kbdEOF, childIn, ioError>>

\* Local stdin reaches end-of-stream (Ctrl-D, or the end of a redirected file).
CloseKbd ==
    /\ task["stdin"] \in Looping
    /\ ~Ended
    /\ ~kbdEOF
    /\ kbdEOF' = TRUE
    /\ UNCHANGED <<command, config, rules, locale, pc, outcome, exitCode,
                   command_name, is_interactive, spawned, child, status,
                   waitStatus, handle, pipe, written, nwrites, task, cur, got,
                   sink, flushed, kbd, typed, childIn, ioError>>

\* ------------------------------------------------------------ specification

Next ==
    \/ RejectEmpty
    \/ LoadConfig
    \/ ConfigError
    \/ SpawnOk
    \/ SpawnFail
    \/ TakeHandles
    \/ SpawnStdoutTask
    \/ SpawnStderrTask
    \/ SpawnStdinTask
    \/ NoStdinTask
    \/ WaitOk
    \/ WaitFail
    \/ JoinStdout
    \/ JoinStderr
    \/ JoinStdinAndReturn
    \/ Interrupt
    \/ \E s \in Streams : StreamRead(s)
    \/ \E s \in Streams : StreamEnd(s)
    \/ \E s \in Streams : StreamWriteText(s)
    \/ \E s \in Streams : StreamWriteNl(s)
    \/ \E s \in Streams : StreamFlush(s)
    \/ \E s \in Streams : StreamFail(s)
    \/ ForwardRead
    \/ ForwardEnd
    \/ ForwardWriteText
    \/ ForwardWriteNl
    \/ ForwardReadError
    \/ ForwardBrokenPipe
    \/ \E s \in Streams : \E bytes \in ChildChunks(s) : ChildWrite(s, bytes)
    \/ \E st \in Statuses : ChildExit(st)
    \/ \E bytes \in KbdChunks : Type(bytes)
    \/ CloseKbd

Spec == Init /\ [][Next]_vars

\* The steps the runtime schedules: a task that can go on does go on, and so
\* does execute_command.
StreamStep(s) ==
    \/ StreamRead(s)
    \/ StreamEnd(s)
    \/ StreamWriteText(s)
    \/ StreamWriteNl(s)
    \/ StreamFlush(s)

ForwardStep ==
    \/ ForwardRead
    \/ ForwardEnd
    \/ ForwardWriteText
    \/ ForwardWriteNl
    \/ ForwardBrokenPipe

SupervisorStep ==
    \/ TakeHandles
    \/ SpawnStdoutTask
    \/ SpawnStderrTask
    \/ SpawnStdinTask
    \/ NoStdinTask
    \/ WaitOk
    \/ JoinStdout
    \/ JoinStderr
    \/ JoinStdinAndReturn

\* Spec with the scheduling of the runtime: no fairness for the child, the
\* keyboard, the I/O errors and the interruption, which may never happen.
FairSpec ==
    /\ Spec
    /\ \A s \in Streams : WF_vars(StreamStep(s))
    /\ WF_vars(ForwardStep)
    /\ WF_vars(SupervisorStep)

\* -------------------------------------------- the rule engine on drawn inputs

\* Rule records the configuration files are drawn from: a -> b and b -> a for
\* every command; a -> (deleted) under locale ja; b -> cc for Sh only; the
\* empty pattern -> x for ls only; a pattern that does not compile; ab -> a
\* under locale ja for SH only; a -> aa, aa -> c and foo -> bar for every
\* command.
TestRecords ==
    { [pattern |-> <<"a">>, replacement |-> <<"b">>,
       locale |-> default_locale, commands |-> <<>>],
      [pattern |-> <<"b">>, replacement |-> <<"a">>,
       locale |-> default_locale, commands |-> <<>>],
      [pattern |-> <<"a">>, replacement |-> <<>>,
       locale |-> ja, commands |-> <<>>],
      [pattern |-> <<"b">>, replacement |-> <<"c","c">>,
       locale |-> default_locale, commands |-> << <<"S","h">> >>],
      [pattern |-> <<>>, replacement |-> <<"x">>,
       locale |-> default_locale, commands |-> << <<"l","s">> >>],
      [pattern |-> <<"(">>, replacement |-> <<"x">>,
       locale |-> default_locale, commands |-> <<>>],
      [pattern |-> <<"a","b">>, replacement |-> <<"a">>,
       locale |-> ja, commands |-> << <<"S","H">> >>],
      [pattern |-> <<"a">>, replacement |-> <<"a","a">>,
       locale |-> default_locale, commands |-> <<>>],
      [pattern |-> <<"a","a">>, replacement |-> <<"c">>,
       locale |-> default_locale, commands |-> <<>>],
      [pattern |-> <<"f","o","o">>, replacement |-> <<"b","a","r">>,
       locale |-> default_locale, commands |-> <<>>] }

TestConfigs == UNION { [1..n -> TestRecords] : n \in 0..MaxRules }

\* Lines the child writes to stdout in these runs.
TestLines ==
    { <<>>, <<"a","b">>, <<"a","a","b">>, <<"b","a">>,
      <<"f","o","o"," ","b","a","z"," ","f","o","o">> }

TestCommands == { CmdLs, CmdBinSH }

\* The wrapper in the middle of a run: the configuration is loaded, the child
\* runs and has written one line to stdout, the stdout transformer has read
\* it and is about to rewrite and write it.
RuleInit ==
    /\ command \in TestCommands
    /\ config \in TestConfigs
    /\ rules = load_config(config)
    /\ locale \in {default_locale, ja}
    /\ pc = "wait"
    /\ outcome = "running"
    /\ exitCode = None
    /\ command_name = CommandName(command)
    /\ is_interactive = IsInteractive(CommandName(command))
    /\ spawned = Some(SpawnPlan(command, IsInteractive(CommandName(command))))
    /\ child = "running"
    /\ status = None
    /\ waitStatus = None
    /\ handle = [h \in Tasks |->
                    IF h = "stdin" /\ ~IsInteractive(CommandName(command))
                    THEN "supervisor" ELSE h]
    /\ pipe = [s \in Streams |-> <<>>]
    /\ \E l \in TestLines :
          /\ written = [s \in Streams |->
                           IF s = "stdout" THEN Append(l, LF) ELSE <<>>]
          /\ cur = [t \in Tasks |-> IF t = "stdout" THEN l ELSE <<>>]
          /\ got = [t \in Tasks |-> IF t = "stdout" THEN <<l>> ELSE <<>>]
    /\ nwrites = [s \in Streams |-> IF s = "stdout" THEN 1 ELSE 0]
    /\ task = [t \in Tasks |->
                  IF t = "stdout" THEN "write_text"
                  ELSE IF t = "stdin" /\ ~IsInteractive(CommandName(command))
                       THEN "none" ELSE "read"]
    /\ sink = [s \in Streams |-> <<>>]
    /\ flushed = [s \in Streams |-> 0]
    /\ kbd = <<>>
    /\ typed = 0
    /\ kbdEOF = FALSE
    /\ childIn = <<>>
    /\ ioError = {}

\* The transformer's step that calls apply_replacements.
RuleNext == \E s \in Streams : StreamWriteText(s)

RuleSpec == RuleInit /\ [][RuleNext]_vars

\* ------------------------------------------- loading drawn configuration files

\* The wrapper at its start, with a configuration file drawn from the test
\* records or the run's own.
LoadInit ==
    /\ command \in TestCommands
    /\ config \in TestConfigs \cup {RunConfig}
    /\ rules = <<>>
    /\ locale = default_locale
    /\ pc = "load"
    /\ outcome = "running"
    /\ exitCode = None
    /\ command_name = <<>>
    /\ is_interactive = FALSE
    /\ spawned = None
    /\ child = "none"
    /\ status = None
    /\ waitStatus = None
    /\ handle = [h \in Tasks |-> "none"]
    /\ pipe = [s \in Streams |-> <<>>]
    /\ written = [s \in Streams |-> <<>>]
    /\ nwrites = [s \in Streams |-> 0]
    /\ task = [t \in Tasks |-> "none"]
    /\ cur = [t \in Tasks |-> <<>>]
    /\ got = [t \in Tasks |-> <<>>]
    /\ sink = [s \in Streams |-> <<>>]
    /\ flushed = [s \in Streams |-> 0]
    /\ kbd = <<>>
    /\ typed = 0
    /\ kbdEOF = FALSE
    /\ childIn = <<>>
    /\ ioError = {}

\* main's step that calls load_config, with either result.
LoadNext == LoadConfig \/ ConfigError

LoadSpec == LoadInit /\ [][LoadNext]_vars

\* ------------------------------------------------------------------ claims

\* C1: an exit code reported after the wait succeeded is the child's own code
\* N when the child exited with N, and 1 when a signal ended it; the status
\* the wait returned is the child's own.
C1_ExitCodeFidelity ==
    (waitStatus # None /\ exitCode # None) =>
        /\ waitStatus = status
        /\ status[1].kind = "code" => exitCode = Some(status[1].code)
        /\ status[1].kind = "signal" => exitCode = Some(1)

\* C1, its case: a run that returned after a signal ended the child.
C1_Witness ==
    /\ outcome = "returned"
    /\ status = Some(Signaled)
    /\ exitCode = Some(1)

\* C2: for an interactive command, once the child has exited the wrapper
\* ends and reports, even while the forwarder waits for a line of local
\* stdin that never comes.  Fails under FairSpec: JoinStdinAndReturn waits
\* for the forwarder, which stays in reader.next_line() while nothing is
\* typed and local stdin is not closed.
C2_ChildExitLeadsToReport ==
    (is_interactive /\ child = "exited") ~> Ended

\* The code the child's own status stands for.
OwnStatusCode == IF status[1].kind = "code" THEN status[1].code ELSE 1

\* C3: when execute_command returns after a successful spawn and wait, the
\* code reported is the child's own status, whatever the three tasks
\* returned and in whatever order they ended.
C3_TaskErrorsDoNotChangeExitCode ==
    outcome = "returned" => exitCode = Some(OwnStatusCode)

\* C3, its case: the child exited with 3, and the run returned 3 although the
\* two transformers and the forwarder all failed.
C3_Witness ==
    /\ outcome = "returned"
    /\ \A t \in Tasks : t \in ioError /\ task[t] = "err"
    /\ status = Some(Exit(3))
    /\ exitCode = Some(3)

\* C4: however the wrapper ends after a successful spawn, the child is not
\* left running.  Fails under Spec: kill_on_drop acts when Child is dropped,
\* and Interrupt ends the wrapper without dropping anything.
C4_ChildNeverOutlivesSupervisor ==
    (Ended /\ spawned # None) => child \in {"exited", "killed"}

\* The lines of a byte stream that has ended: each runs to a line feed, which
\* with a carriage return before it is no part of the line; bytes after the
\* last line feed are a line too.
RECURSIVE LinesOf(_)
LinesOf(bytes) ==
    IF bytes = <<>>
    THEN <<>>
    ELSE <<StripLineEnd(RawLine(bytes))>> \o LinesOf(AfterLine(bytes))

\* The rewritten line under the run's command name, rules and locale.
Rewritten(text) == apply_replacements(text, command_name, rules, locale)

\* What a sink holds when every one of the lines was delivered: each line
\* rewritten and followed by one line feed.
RECURSIVE Rendered(_)
Rendered(lines) ==
    IF lines = <<>>
    THEN <<>>
    ELSE Rewritten(Head(lines)) \o <<LF>> \o Rendered(Tail(lines))

\* C5: a run that returned has delivered to an output sink every line the
\* child wrote to that stream, unless that stream's own transformer hit an
\* error: an error of the other transformer or of the forwarder does not
\* stop or alter it.
C5_StreamIsolation ==
    \A s \in Streams :
        (outcome = "returned" /\ s \notin ioError) =>
            /\ task[s] = "ok"
            /\ sink[s] = Rendered(LinesOf(written[s]))

\* C5, its case: the stderr transformer failed and stdout's two lines were
\* delivered.
C5_Witness ==
    /\ outcome = "returned"
    /\ "stderr" \in ioError
    /\ "stdout" \notin ioError
    /\ Len(got["stdout"]) = 2
    /\ sink["stdout"] = Rendered(got["stdout"])

\* The lines of a sink that are complete: ended by a line feed.
RECURSIVE CompleteLines(_)
CompleteLines(bytes) ==
    IF HasLineFeed(bytes)
    THEN <<SubSeq(bytes, 1, FirstLineFeed(bytes) - 1)>>
         \o CompleteLines(SubSeq(bytes, FirstLineFeed(bytes) + 1, Len(bytes)))
    ELSE <<>>

\* The bytes of a sink after its last line feed.
RECURSIVE Fragment(_)
Fragment(bytes) ==
    IF HasLineFeed(bytes)
    THEN Fragment(SubSeq(bytes, FirstLineFeed(bytes) + 1, Len(bytes)))
    ELSE bytes

IsPrefix(a, b) == Len(a) <= Len(b) /\ SubSeq(b, 1, Len(a)) = a

\* C6: in every state the complete lines of an output sink are, in order, the
\* rewritten first lines read from that stream, one for one; bytes after the
\* last line feed begin the rewritten next line read.
C6_LineOrderPreserved ==
    \A s \in Streams :
        LET done == CompleteLines(sink[s])
            frag == Fragment(sink[s])
        IN /\ Len(done) <= Len(got[s])
           /\ \A i \in 1..Len(done) : done[i] = Rewritten(got[s][i])
           /\ frag # <<>> =>
                 /\ Len(done) < Len(got[s])
                 /\ IsPrefix(frag, Rewritten(got[s][Len(done) + 1]))

\* C6, its case: under /bin/SH the lines "ba" and "b" were read from stdout
\* and written as "ddc" and "dd".
C6_Witness ==
    /\ got["stdout"] = << <<"b","a">>, <<"b">> >>
    /\ CompleteLines(sink["stdout"]) = << <<"d","d","c">>, <<"d","d">> >>

\* C7: /bin/SH -i is spawned as sh -c "/bin/SH -i" and has a forwarder once
\* the tasks are spawned; ls -a, sh/ls and bin/.. are spawned as they are and
\* never have a forwarder.
C7_InteractiveDetection ==
    spawned # None =>
        IF command = CmdBinSH
        THEN /\ spawned[1] =
                   [program |-> <<"s","h">>,
                    args |-> << <<"-","c">>,
                                <<"/","b","i","n","/","S","H"," ","-","i">> >>]
             /\ (pc \in {"wait", "join_stdout", "join_stderr", "join_stdin"}
                   \/ outcome = "returned") => task["stdin"] # "none"
        ELSE /\ spawned[1] = [program |-> command[1], args |-> Tail(command)]
             /\ task["stdin"] = "none"

\* C7, its case: /bin/SH -i runs with its forwarder reading local stdin.
C7_Witness ==
    /\ command = CmdBinSH
    /\ pc = "wait"
    /\ task["stdin"] = "read"
    /\ handle["stdin"] = "stdin"

\* C8: when the spawn fails the run ends with exit code 1, no child, no task
\* started and nothing written to a sink.
C8_SpawnFailureAborts ==
    outcome = "spawn_error" =>
        /\ exitCode = Some(1)
        /\ child = "none" /\ spawned = None
        /\ \A t \in Tasks : task[t] = "none"
        /\ \A s \in Streams : sink[s] = <<>>
        /\ childIn = <<>>

\* C8, its case: the spawn of an interactive command failed.
C8_Witness ==
    /\ outcome = "spawn_error"
    /\ is_interactive
    /\ pc = "exited"

\* C9: once the child is gone, and with it the write ends of its stdout and
\* stderr pipes, each transformer of a running wrapper reaches the end of its
\* stream and returns, and the wrapper's joins of the two transformers
\* complete.
C9_DrainCompletes ==
    /\ (SourceClosed /\ ~Ended) ~>
           (Ended \/ \A s \in Streams : task[s] \in Finished)
    /\ (pc = "join_stdout") ~> (pc \notin {"join_stdout", "join_stderr"})

\* C9, its case: both transformers saw end-of-stream after reading what the
\* child wrote, and both joins are done.
C9_Witness ==
    /\ pc = "join_stdin"
    /\ child = "exited"
    /\ \A s \in Streams : task[s] = "ok" /\ written[s] # <<>> /\ pipe[s] = <<>>

\* The rule runs under the run's locale and command name: its locale tag is
\* the selected locale, and its command filter is empty or holds the command
\* name in lower case.
C10_Applies(rule) ==
    /\ rule.locale = locale
    /\ \/ rule.commands = <<>>
       \/ \E i \in DOMAIN rule.commands :
             rule.commands[i] = to_lowercase(command_name)

\* C10: a rule that does not apply never alters the text: the rewritten line
\* is what the applicable rules alone make of it, and it is the line itself
\* when no rule applies.
C10_InapplicableRulesAreIdentity ==
    task["stdout"] = "write_nl" =>
        /\ sink["stdout"] =
              apply_replacements(cur["stdout"], command_name,
                                 SelectSeq(rules, C10_Applies), locale)
        /\ (\A i \in DOMAIN rules : ~C10_Applies(rules[i])) =>
              sink["stdout"] = cur["stdout"]

\* C10, its case: under locale default and command ls, a rule of locale ja
\* and a rule filtered to another command, each of which would change the
\* line, left it as it was.
C10_Witness ==
    /\ task["stdout"] = "write_nl"
    /\ locale = default_locale
    /\ Len(rules) = 2
    /\ rules[1].locale = ja /\ rules[1].commands = <<>>
    /\ rules[2].locale = default_locale /\ rules[2].commands # <<>>
    /\ \A i \in DOMAIN rules :
          /\ ~C10_Applies(rules[i])
          /\ replace_all(cur["stdout"], rules[i].pattern, rules[i].replacement)
                # cur["stdout"]
    /\ sink["stdout"] = cur["stdout"]

\* Each of the records applied in turn to the text the one before it left:
\* every non-overlapping match of its pattern is replaced.
RECURSIVE ReplaceEach(_, _)
ReplaceEach(text, recs) ==
    IF recs = <<>>
    THEN text
    ELSE ReplaceEach(replace_all(text, Head(recs).pattern, Head(recs).replacement),
                     Tail(recs))

\* The record's filter, compared without regard to letter case on both
\* sides, admits the run's command name: it is empty, or the lowercased form
\* of one of its entries is the lowercased command name.
C11_FilterAdmits(rec) ==
    \/ rec.commands = <<>>
    \/ \E i \in DOMAIN rec.commands :
          to_lowercase(rec.commands[i]) = to_lowercase(command_name)

\* The record is one that fires in this run: its pattern compiles, its locale
\* is the selected one and its filter admits the command name.
C11_Fires(rec) ==
    /\ Compiles(rec.pattern)
    /\ rec.locale = locale
    /\ C11_FilterAdmits(rec)

\* C11: command filtering is case-insensitive on both sides.  The line the
\* stdout transformer wrote is the line it read with exactly those records of
\* the configuration file applied whose filter is empty or holds, letter case
\* aside, the command name (and whose locale is the selected one).
C11_FilterIsCaseInsensitive ==
    task["stdout"] = "write_nl" =>
        sink["stdout"] = ReplaceEach(cur["stdout"], SelectSeq(config, C11_Fires))

\* C11, its case: the filter ["Sh"] fired for /bin/SH (name SH) and changed
\* the line.
C11_Witness ==
    /\ task["stdout"] = "write_nl"
    /\ command_name = <<"S","H">>
    /\ Len(config) = 1
    /\ config[1].commands = << <<"S","h">> >>
    /\ locale = config[1].locale
    /\ sink["stdout"] # cur["stdout"]

\* The characters of a text.
C12_Chars(text) == { text[i] : i \in DOMAIN text }

\* Two rules with disjoint, non-overlapping patterns: both patterns are
\* non-empty and share no character, so that no match of one overlaps a match
\* of the other.
C12_DisjointPatterns(a, b) ==
    /\ a.pattern # <<>>
    /\ b.pattern # <<>>
    /\ C12_Chars(a.pattern) \cap C12_Chars(b.pattern) = {}

\* Two independent rules: their patterns are disjoint, and the replacement of
\* each is non-empty and has no character of the other's pattern, so that
\* neither makes, breaks or joins up a match of the other.
C12_Independent(a, b) ==
    /\ C12_DisjointPatterns(a, b)
    /\ a.replacement # <<>>
    /\ b.replacement # <<>>
    /\ C12_Chars(a.replacement) \cap C12_Chars(b.pattern) = {}
    /\ C12_Chars(b.replacement) \cap C12_Chars(a.pattern) = {}

\* The rule set has two rules and both apply in this run.
C12_TwoApplicable ==
    /\ Len(rules) = 2
    /\ \A i \in 1..2 : Applicable(rules[i], to_lowercase(command_name), locale)

\* The line read, rewritten with the two rules in the other order.
C12_OtherOrder ==
    apply_replacements(cur["stdout"], command_name, <<rules[2], rules[1]>>, locale)

\* C12 as stated: two applicable rules with disjoint, non-overlapping
\* patterns give the same final text in either order.  Fails under RuleSpec:
\* a -> b followed by b -> a turns "ab" into "aa", the other order into "bb".
C12_DisjointPatternsCommute ==
    (task["stdout"] = "write_nl" /\ C12_TwoApplicable
        /\ C12_DisjointPatterns(rules[1], rules[2]))
    => sink["stdout"] = C12_OtherOrder

\* C12, amended: two applicable rules that are independent (disjoint
\* non-empty literal patterns, and non-empty replacements without a
\* character of the other rule's pattern) give the same final text in either
\* order.
C12_IndependentRulesCommute ==
    (task["stdout"] = "write_nl" /\ C12_TwoApplicable
        /\ C12_Independent(rules[1], rules[2]))
    => sink["stdout"] = C12_OtherOrder

\* C12, its case: two independent rules that both changed the line.
C12_Witness ==
    /\ task["stdout"] = "write_nl"
    /\ C12_TwoApplicable
    /\ C12_Independent(rules[1], rules[2])
    /\ \A i \in 1..2 :
          replace_all(cur["stdout"], rules[i].pattern, rules[i].replacement)
              # cur["stdout"]
    /\ sink["stdout"] = C12_OtherOrder

\* The texts of the example: the line "foo baz foo" and its image.
C13_FooBazFoo == <<"f","o","o"," ","b","a","z"," ","f","o","o">>
C13_BarBazBar == <<"b","a","r"," ","b","a","z"," ","b","a","r">>

\* The rule set is the single rule foo -> bar with no command filter.
C13_OnlyFooToBar ==
    /\ Len(rules) = 1
    /\ rules[1].pattern = <<"f","o","o">>
    /\ rules[1].replacement = <<"b","a","r">>
    /\ rules[1].commands = <<>>
    /\ rules[1].locale = locale

\* C13: the rewritten line is the left fold of the applicable rules in rule
\* set order, each replacing every non-overlapping match of its pattern in
\* the text the rule before it left; the single rule foo -> bar maps
\* "foo baz foo" to "bar baz bar".
C13_LeftFoldInOrder ==
    task["stdout"] = "write_nl" =>
        /\ sink["stdout"] = ReplaceEach(cur["stdout"], SelectSeq(rules, C10_Applies))
        /\ (C13_OnlyFooToBar /\ cur["stdout"] = C13_FooBazFoo)
               => sink["stdout"] = C13_BarBazBar

\* C13, its case: two applicable rules of which the second rewrote what the
\* first had written, so that the result differs from the second rule
\* applied to the line itself.
C13_Witness ==
    /\ task["stdout"] = "write_nl"
    /\ Len(rules) = 2
    /\ \A i \in 1..2 : C10_Applies(rules[i])
    /\ LET first == replace_all(cur["stdout"], rules[1].pattern, rules[1].replacement)
       IN /\ first # cur["stdout"]
          /\ sink["stdout"] = replace_all(first, rules[2].pattern, rules[2].replacement)
          /\ sink["stdout"] # replace_all(cur["stdout"], rules[2].pattern,
                                          rules[2].replacement)
          /\ sink["stdout"] # first

\* Lines as they are on a sink that received each of them unchanged and
\* followed by one line feed.
RECURSIVE C14_Verbatim(_)
C14_Verbatim(lines) ==
    IF lines = <<>>
    THEN <<>>
    ELSE Head(lines) \o <<LF>> \o C14_Verbatim(Tail(lines))

\* C14: the exit code is reported only after the child's exit was observed
\* and the two transformers, and the forwarder when there is one, have
\* returned, with Ok or with an error; so with no I/O error and an empty rule
\* set local stdout then holds exactly the lines the child wrote to its
\* stdout, each followed by one line feed.
C14_ReportAfterDrain ==
    outcome = "returned" =>
        /\ exitCode # None
        /\ waitStatus # None
        /\ child = "exited"
        /\ \A s \in Streams : task[s] \in Finished
        /\ IF is_interactive
           THEN task["stdin"] \in Finished
           ELSE task["stdin"] = "none"
        /\ (ioError = {} /\ rules = <<>>) =>
               sink["stdout"] = C14_Verbatim(LinesOf(written["stdout"]))

\* C14, its case: a run with the empty rule set and no I/O error that
\* reported after the child wrote its two lines to stdout.
C14_Witness ==
    /\ outcome = "returned"
    /\ rules = <<>>
    /\ ioError = {}
    /\ Len(LinesOf(written["stdout"])) = 2
    /\ sink["stdout"] = <<"b", "a", LF, "b", LF>>

\* What the sink of stream s held when the transformer read its latest line:
\* the lines before it, each rewritten and followed by one line feed.
C15_Before(s) == Rendered(SubSeq(got[s], 1, Len(got[s]) - 1))

\* The transformer of stream s holds one line, the latest it read, and all it
\* wrote for the lines before is flushed.
C15_HoldsLatest(s) ==
    /\ got[s] # <<>>
    /\ cur[s] = got[s][Len(got[s])]
    /\ flushed[s] = Len(C15_Before(s))

\* Where the loop of stream s stands and what the sink holds go together:
\* about to read, every line read is written, ended and flushed; then the
\* text of the latest line, then one line feed, then the flush.
C15_OneLineAtATime(s) ==
    /\ task[s] \in {"read", "ok"} =>
          /\ cur[s] = <<>> \/ Ended
          /\ sink[s] = Rendered(got[s])
          /\ flushed[s] = Len(sink[s])
    /\ task[s] = "write_text" =>
          /\ C15_HoldsLatest(s)
          /\ sink[s] = C15_Before(s)
    /\ task[s] = "write_nl" =>
          /\ C15_HoldsLatest(s)
          /\ sink[s] = C15_Before(s) \o Rewritten(cur[s])
    /\ task[s] = "flush" =>
          /\ C15_HoldsLatest(s)
          /\ sink[s] = C15_Before(s) \o Rewritten(cur[s]) \o <<LF>>
    /\ s \in ioError => task[s] = "err"

\* A transformer that stopped reads and writes nothing further.
C15_NothingAfterStop(s) ==
    task[s] \notin Looping \cup {"none"} =>
        /\ task'[s] = task[s]
        /\ sink'[s] = sink[s]
        /\ flushed'[s] = flushed[s]
        /\ got'[s] = got[s]

\* C15: a transformer holds one line at a time: for each line it read, the
\* last one without a line end included, it writes the rewritten text, then
\* one line feed, then flushes, and reads the next line only after that
\* flush; after a failed read or write it has stopped with an error and
\* writes nothing further.
C15_LineByLine ==
    /\ [](\A s \in Streams : C15_OneLineAtATime(s))
    /\ [][\A s \in Streams : C15_NothingAfterStop(s)]_vars

\* C15, its case: stdout's transformer has read, written and flushed both
\* lines, the second of which had no line end, while stderr's stopped on an
\* error.
C15_Witness ==
    /\ task["stdout"] = "read"
    /\ written["stdout"] = <<"b", "a", CR, LF, "b">>
    /\ Len(got["stdout"]) = 2
    /\ sink["stdout"] = Rendered(got["stdout"])
    /\ flushed["stdout"] = Len(sink["stdout"])
    /\ task["stderr"] = "err"

\* How far a handle has come: not there, in the Child, taken into
\* execute_command's local, moved into a task, dropped.
C16_Stage(owner) ==
    CASE owner = "none" -> 0
      [] owner = "child" -> 1
      [] owner = "supervisor" -> 2
      [] owner \in Tasks -> 3
      [] owner = "dropped" -> 4

\* Handle h is owned by no task but its own, and a task inside its loop
\* owns its handle.
C16_OwnedByItsTask(h) ==
    /\ handle[h] \in {"none", "child", "supervisor", "dropped", h}
    /\ task[h] \in Looping => handle[h] = h
    /\ task[h] = "none" => handle[h] # h

\* Handle h never comes back to an owner it has left: it is taken from the
\* Child once, by TakeHandles, and moved into a task once.
C16_TakenOnce(h) ==
    /\ C16_Stage(handle'[h]) >= C16_Stage(handle[h])
    /\ (handle[h] = "child" /\ handle'[h] # "child") => pc = "spawned"

\* C16: each of the child's three handles is taken once and owned by at
\* most one task for the whole run: stdout's by the stdout transformer,
\* stderr's by the stderr transformer, stdin's by the forwarder, or by no
\* task when the command is not interactive.
C16_HandleOwnership ==
    /\ [](/\ \A h \in Tasks : C16_OwnedByItsTask(h)
          /\ (child # "none" /\ ~is_interactive) => handle["stdin"] # "stdin")
    /\ [][\A h \in Tasks : C16_TakenOnce(h)]_vars

\* C16, its case: the three tasks run, each owning its own handle.
C16_Witness ==
    /\ \A h \in Tasks : task[h] \in Looping /\ handle[h] = h
    /\ child = "running"

\* The lines on the child's stdin are, in order and as they were read, the
\* first lines read from local stdin; bytes after the last line feed begin
\* the next line read.
C17_VerbatimPrefix ==
    LET done == CompleteLines(childIn)
        frag == Fragment(childIn)
    IN /\ Len(done) <= Len(got["stdin"])
       /\ done = SubSeq(got["stdin"], 1, Len(done))
       /\ frag # <<>> =>
             /\ Len(done) < Len(got["stdin"])
             /\ IsPrefix(frag, got["stdin"][Len(done) + 1])

\* The forwarder returned Ok only at the end of local stdin, and an error of
\* its own is its only other way to stop while the wrapper lives.
C17_StopsForCause ==
    /\ task["stdin"] = "ok" => kbdEOF /\ kbd = <<>>
    /\ task["stdin"] = "err" => "stdin" \in ioError

\* The forwarder's error does not reach the run's result.
C17_FailureNotSurfaced ==
    (outcome = "returned" /\ task["stdin"] = "err") =>
        exitCode = Some(OwnStatusCode)

\* The forwarder is about to write to a child that is gone.
C17_WriteWillFail ==
    /\ child # "running"
    /\ \/ task["stdin"] = "write_text" /\ cur["stdin"] # <<>>
       \/ task["stdin"] = "write_nl"

\* C17: the forwarder passes lines through unchanged and in order: what the
\* child's stdin received is a prefix of the lines read from local stdin,
\* never rewritten by the rules.  It stops when local stdin ends or a write
\* to the child fails, and that failure is not the run's failure.
C17_ForwarderVerbatim ==
    /\ [](C17_VerbatimPrefix /\ C17_StopsForCause /\ C17_FailureNotSurfaced)
    /\ (task["stdin"] \in Looping /\ kbdEOF) ~> (task["stdin"] \notin Looping)
    /\ C17_WriteWillFail ~> (task["stdin"] \notin Looping)

\* C17, its case: the lines "a" and "b", which the rules a -> c and b -> dd
\* would rewrite, were read from local stdin and reached the child's stdin
\* as they were.
C17_Witness ==
    /\ got["stdin"] = << <<"a">>, <<"b">> >>
    /\ childIn = <<"a", LF, "b", LF>>
    /\ Rewritten(<<"a">>) = <<"c">>
    /\ Rewritten(<<"b">>) = <<"d", "d">>

\* The record's pattern compiles.
C18_Valid(rec) == Compiles(rec.pattern)

\* The rule is the record compiled: the same pattern, replacement and
\* locale, and the record's command filter in lower case.
C18_RuleOf(rule, rec) ==
    /\ rule.pattern = rec.pattern
    /\ rule.replacement = rec.replacement
    /\ rule.locale = rec.locale
    /\ Len(rule.commands) = Len(rec.commands)
    /\ \A i \in DOMAIN rec.commands :
          rule.commands[i] = to_lowercase(rec.commands[i])

\* C18: loading keeps exactly the records whose pattern compiles, in their
\* order in the file: a record that does not compile is dropped, no other
\* record is dropped or moved, and the run goes on with the rules that are
\* left.
C18_LoadKeepsValidInOrder ==
    pc = "start" =>
        /\ outcome = "running"
        /\ exitCode = None
        /\ Len(rules) = Len(SelectSeq(config, C18_Valid))
        /\ \A i \in DOMAIN rules :
              C18_RuleOf(rules[i], SelectSeq(config, C18_Valid)[i])

\* C18, its case: a file whose third record of four does not compile gave
\* the other three rules in order.
C18_Witness ==
    /\ pc = "start"
    /\ Len(config) = 4
    /\ ~Compiles(config[3].pattern)
    /\ Len(rules) = 3
    /\ C18_RuleOf(rules[1], config[1])
    /\ C18_RuleOf(rules[2], config[2])
    /\ C18_RuleOf(rules[3], config[4])

\* C19: for a command that is not interactive, from the spawn until
\* execute_command returns the write end of the child's stdin pipe is held
\* by the wrapper (in the Child, then in execute_command's local), is given
\* to no task, and nothing is written to it: the child sees neither a byte
\* nor end-of-stream on its stdin.
C19_StdinHeldOpen ==
    (spawned # None /\ ~is_interactive) =>
        /\ childIn = <<>>
        /\ task["stdin"] = "none"
        /\ ~Ended => handle["stdin"] \in {"child", "supervisor"}

\* C19, its case: ls has exited, its output is drained and the supervisor is
\* at its last join, still holding the stdin handle.
C19_Witness ==
    /\ command = CmdLs
    /\ pc = "join_stdin"
    /\ child = "exited"
    /\ \A s \in Streams : task[s] = "ok"
    /\ handle["stdin"] = "supervisor"
    /\ childIn = <<>>

\* The forwarder returned Ok: local stdin has ended, every line read from it
\* is on the child's stdin, followed by one line feed, and the write end of
\* the child's stdin is closed.
C20_ClosedAfterAllLines ==
    task["stdin"] = "ok" =>
        /\ kbdEOF /\ kbd = <<>>
        /\ childIn = C14_Verbatim(got["stdin"])
        /\ handle["stdin"] = "dropped"

\* C20: for an interactive command, once local stdin has reached
\* end-of-stream the forwarder finishes and with it the write end of the
\* child's stdin is closed, after every forwarded line was written: the
\* child then sees end-of-stream on its stdin.
C20_EofClosesChildStdin ==
    /\ []C20_ClosedAfterAllLines
    /\ (is_interactive /\ task["stdin"] \in Looping /\ kbdEOF)
          ~> (handle["stdin"] = "dropped"
                /\ (task["stdin"] = "ok" \/ "stdin" \in ioError \/ Ended))

\* C20, its case: local stdin ended after "a" and "b", the forwarder returned
\* Ok, and the child, still running, has both lines and a closed stdin.
C20_Witness ==
    /\ is_interactive
    /\ child = "running"
    /\ task["stdin"] = "ok"
    /\ childIn = <<"a", LF, "b", LF>>
    /\ handle["stdin"] = "dropped"

====
